---- MODULE Spec2Model ----
(***************************************************************************)
(* Employee resource of habot-connect-python-backend-assignment:           *)
(* the Employee table (employees/models.py), the three serializers         *)
(* (employees/serializers.py), the paginator (employees/pagination.py)     *)
(* and the two views (employees/views.py).                                 *)
(*                                                                         *)
(* Strings that the code trims or lower-cases (name, email) are sequences  *)
(* of one-character strings, so that strip() and lower() are computed.     *)
(* department and role are only ever compared whole and are TLA+ strings.  *)
(* A request body is a function whose DOMAIN is the set of keys it holds.  *)
(***************************************************************************)
EXTENDS Integers, Sequences, FiniteSets, TLC

VARIABLES
    store,     \* table "employee": id -> row, DOMAIN store = the ids present
    nextId,    \* the AutoField sequence: the id the next INSERT gets
    today,     \* the current date, as a day number
    pc,        \* per request handler: where it stands between database calls
    inst,      \* per request handler: the in-memory Employee instance it holds
    resp,      \* per request handler: the last response it returned
    listing    \* the list responses received for the current table, by page

vars == <<store, nextId, today, pc, inst, resp, listing>>

(***************************************************************************)
(* Bounds of the model.                                                    *)
(***************************************************************************)
\* the sequential specification stops creating once nextId passes MaxId
MaxId == 2
\* the clock stops at MaxDay
MaxDay == 1
\* the concurrent specification stops creating once nextId passes RaceMaxId
RaceMaxId == 2
\* the list specification starts from a table of at most MaxRecords rows
MaxRecords == 12

(***************************************************************************)
(* Program constants.                                                      *)
(***************************************************************************)
NameMaxLength == 255
EmailMaxLength == 254
PageSize == 10
MaxPageSize == 100

DepartmentChoices == {"HR", "Engineering", "Sales", "Marketing", "Finance", "Operations"}
RoleChoices == {"Manager", "Developer", "Analyst", "Designer", "Lead", "Intern"}

\* SQL NULL in a department or role column
Null == "<null>"

(***************************************************************************)
(* str.strip() and str.lower()                                             *)
(***************************************************************************)
LowerChar(c) ==
    CASE c = "A" -> "a"
      [] c = "B" -> "b"
      [] c = "X" -> "x"
      [] OTHER -> c

StrLower(s) == [i \in 1..Len(s) |-> LowerChar(s[i])]

RECURSIVE LStrip(_)
LStrip(s) == IF s # <<>> /\ Head(s) = " " THEN LStrip(Tail(s)) ELSE s

RECURSIVE RStrip(_)
RStrip(s) ==
    IF s # <<>> /\ s[Len(s)] = " " THEN RStrip(SubSeq(s, 1, Len(s) - 1)) ELSE s

StrStrip(s) == RStrip(LStrip(s))

\* value.lower().strip()
NormalizeEmail(s) == StrStrip(StrLower(s))

(***************************************************************************)
(* django.core.validators.EmailValidator, to the extent the inputs of the  *)
(* model exercise it: one "@" splits a dot-atom user part from a domain of *)
(* dot-separated labels whose last label has at least two characters.      *)
(***************************************************************************)
LetterChars ==
    {"a", "b", "e", "x", "i", "o", "l", "A", "B", "X",
     "0", "1", "2", "3", "4", "5", "6", "7", "8", "9"}

LastIndexOf(s, c) ==
    LET hits == {i \in 1..Len(s) : s[i] = c}
    IN  IF hits = {} THEN 0 ELSE CHOOSE i \in hits : \A j \in hits : j <= i

DotAtom(u) ==
    /\ u # <<>>
    /\ \A i \in 1..Len(u) : u[i] \in LetterChars \cup {"."}
    /\ u[1] # "." /\ u[Len(u)] # "."
    /\ \A i \in 1..(Len(u) - 1) : ~(u[i] = "." /\ u[i + 1] = ".")

ValidEmailFormat(s) ==
    LET at == LastIndexOf(s, "@")
        user == SubSeq(s, 1, at - 1)
        domain == SubSeq(s, at + 1, Len(s))
        dot == LastIndexOf(domain, ".")
    IN  /\ at > 0
        /\ DotAtom(user)
        /\ DotAtom(domain)
        /\ dot > 0
        /\ Len(domain) - dot >= 2

(***************************************************************************)
(* The table and the in-memory instance.                                   *)
(***************************************************************************)
\* the pk of an instance that was never saved, and of "no instance"
NoId == 0
\* date_joined of an instance that was never saved
NoDate == -1

Row(name, email, department, role, date_joined) ==
    [name |-> name, email |-> email, department |-> department,
     role |-> role, date_joined |-> date_joined]

Instance(id, row) ==
    [id |-> id, name |-> row.name, email |-> row.email,
     department |-> row.department, role |-> row.role,
     date_joined |-> row.date_joined]

RowOf(i) == Row(i.name, i.email, i.department, i.role, i.date_joined)

\* a handler that holds no instance
NoInstance == Instance(NoId, Row(<<>>, <<>>, Null, Null, NoDate))

\* Employee.objects.filter(email=value).exclude(id=exceptId).exists()
EmailExists(db, value, exceptId) ==
    \E i \in DOMAIN db : i # exceptId /\ db[i].email = value

(***************************************************************************)
(* Serializer fields.  A field's run gives [state, value, errs]: state     *)
(* "skip" (the key is absent and may be), "ok" or "err".                   *)
(***************************************************************************)
FSkip == [state |-> "skip", errs |-> {}]
FErr(codes) == [state |-> "err", errs |-> codes]
FOk(v) == [state |-> "ok", value |-> v, errs |-> {}]

\* CharField built from Employee.name: required, trimmed, not blank
NameField(body, partial) ==
    IF "name" \notin DOMAIN body
    THEN IF partial THEN FSkip ELSE FErr({"required"})
    ELSE LET v == StrStrip(body.name)
         IN  IF v = <<>> THEN FErr({"blank"})
             ELSE IF Len(v) > NameMaxLength THEN FErr({"max_length"})
             ELSE FOk(v)

\* EmailField built from Employee.email: required, trimmed, not blank, then
\* its validators, all of them run: format, length, UniqueValidator (an exact
\* match on the trimmed value, the instance under update excluded)
EmailField(db, body, partial, instanceId) ==
    IF "email" \notin DOMAIN body
    THEN IF partial THEN FSkip ELSE FErr({"required"})
    ELSE LET v == StrStrip(body.email)
             codes == (IF ValidEmailFormat(v) THEN {} ELSE {"invalid"})
                      \cup (IF Len(v) > EmailMaxLength THEN {"max_length"} ELSE {})
                      \cup (IF EmailExists(db, v, instanceId) THEN {"unique"} ELSE {})
         IN  IF v = <<>> THEN FErr({"blank"})
             ELSE IF codes # {} THEN FErr(codes)
             ELSE FOk(v)

\* a ChoiceField that takes any string
ChoiceField_AnyValue(body, key, choices) ==
    IF key \notin DOMAIN body THEN FSkip ELSE FOk(body[key])

\* ChoiceField built from Employee.department / Employee.role: optional,
\* may be null or blank
ChoiceField(body, key, choices) ==
    IF key \notin DOMAIN body THEN FSkip
    ELSE IF body[key] \in {Null, ""} \cup choices THEN FOk(body[key])
    ELSE FErr({"invalid_choice"})

\* a field's validate_<field> method runs only on a value its field accepted
Then(r, method(_)) == IF r.state = "ok" THEN method(r.value) ELSE r

(***************************************************************************)
(* EmployeeSerializer                                                      *)
(***************************************************************************)
EmployeeSerializer_validate_name(value) ==
    IF value = <<>> \/ StrStrip(value) = <<>> THEN FErr({"empty"})
    ELSE FOk(StrStrip(value))

\* validate_email that does not exclude the instance under update
EmployeeSerializer_validate_email_NoExclude(db, value, instanceId) ==
    IF value = <<>> THEN FErr({"required"})
    ELSE LET v == NormalizeEmail(value)
         IN  IF EmailExists(db, v, NoId) THEN FErr({"unique"}) ELSE FOk(v)

EmployeeSerializer_validate_email(db, value, instanceId) ==
    IF value = <<>> THEN FErr({"required"})
    ELSE LET v == NormalizeEmail(value)
         IN  IF EmailExists(db, v, instanceId) THEN FErr({"unique"}) ELSE FOk(v)

validate_department(value) ==
    IF value \notin {Null, ""} /\ value \notin DepartmentChoices THEN FErr({"invalid_choice"})
    ELSE FOk(value)

validate_role(value) ==
    IF value \notin {Null, ""} /\ value \notin RoleChoices THEN FErr({"invalid_choice"})
    ELSE FOk(value)

(***************************************************************************)
(* EmployeeCreateSerializer                                                *)
(***************************************************************************)
EmployeeCreateSerializer_validate_name(value) ==
    IF value = <<>> \/ StrStrip(value) = <<>> THEN FErr({"empty"})
    ELSE FOk(StrStrip(value))

\* validate_email that looks the value up without lower-casing it
EmployeeCreateSerializer_validate_email_NoLower(db, value) ==
    IF value = <<>> THEN FErr({"required"})
    ELSE LET v == StrStrip(value)
         IN  IF EmailExists(db, v, NoId) THEN FErr({"unique"}) ELSE FOk(v)

EmployeeCreateSerializer_validate_email(db, value) ==
    IF value = <<>> THEN FErr({"required"})
    ELSE LET v == NormalizeEmail(value)
         IN  IF EmailExists(db, v, NoId) THEN FErr({"unique"}) ELSE FOk(v)

(***************************************************************************)
(* is_valid(): every writable field is run, the errors of all of them are  *)
(* collected by field name, and validated_data holds the accepted values.  *)
(* id and date_joined are read-only (or not fields at all): never read.    *)
(***************************************************************************)
WritableFields == {"name", "email", "department", "role"}

Collect(runs) ==
    [errors |-> [f \in {g \in WritableFields : runs[g].state = "err"} |-> runs[f].errs],
     data   |-> [f \in {g \in WritableFields : runs[g].state = "ok"} |-> runs[f].value]]

EmployeeCreateSerializer_is_valid(db, body) ==
    LET ve(v) == EmployeeCreateSerializer_validate_email(db, v)
    IN Collect([f \in WritableFields |->
        CASE f = "name" -> Then(NameField(body, FALSE), EmployeeCreateSerializer_validate_name)
          [] f = "email" -> Then(EmailField(db, body, FALSE, NoId), ve)
          [] f = "department" -> ChoiceField(body, "department", DepartmentChoices)
          [] f = "role" -> ChoiceField(body, "role", RoleChoices)])

EmployeeSerializer_is_valid(db, instanceId, body, partial) ==
    LET ve(v) == EmployeeSerializer_validate_email(db, v, instanceId)
    IN Collect([f \in WritableFields |->
        CASE f = "name" -> Then(NameField(body, partial), EmployeeSerializer_validate_name)
          [] f = "email" -> Then(EmailField(db, body, partial, instanceId), ve)
          [] f = "department" ->
                Then(ChoiceField(body, "department", DepartmentChoices), validate_department)
          [] f = "role" -> Then(ChoiceField(body, "role", RoleChoices), validate_role)])

\* validated_data.get(key, default)
Get(data, key, default) == IF key \in DOMAIN data THEN data[key] ELSE default

\* create that does not pass role on
NewInstance_DropsRole(data) ==
    [id |-> NoId, name |-> data.name, email |-> data.email,
     department |-> Get(data, "department", Null), role |-> Null,
     date_joined |-> NoDate]

\* ModelSerializer.create: Employee(**validated_data), not yet saved
NewInstance(data) ==
    [id |-> NoId, name |-> data.name, email |-> data.email,
     department |-> Get(data, "department", Null), role |-> Get(data, "role", Null),
     date_joined |-> NoDate]

\* EmployeeSerializer.update, up to its instance.save()
EmployeeSerializer_update(instance, data) ==
    [instance EXCEPT !.name = Get(data, "name", instance.name),
                     !.email = Get(data, "email", instance.email),
                     !.department = Get(data, "department", instance.department),
                     !.role = Get(data, "role", instance.role)]

(***************************************************************************)
(* Employee.save(): full_clean(), then the INSERT or UPDATE.               *)
(***************************************************************************)
\* models.validate_not_empty
validate_not_empty(value) == value # <<>> /\ StrStrip(value) # <<>>

\* Model.clean_fields over name, email, department, role
CleanFieldsOk(i) ==
    /\ validate_not_empty(i.name) /\ Len(i.name) <= NameMaxLength
    /\ i.email # <<>> /\ ValidEmailFormat(i.email) /\ Len(i.email) <= EmailMaxLength
    /\ i.department \in DepartmentChoices \cup {Null, ""}
    /\ i.role \in RoleChoices \cup {Null, ""}

\* Employee.clean: the instance with its email normalized
Clean(i) == IF i.email # <<>> THEN [i EXCEPT !.email = NormalizeEmail(i.email)] ELSE i

\* Model.validate_unique on email; a saved instance is excluded by its pk
ValidateUniqueOk(db, i) == ~EmailExists(db, i.email, i.id)

\* full_clean: [ok, instance]; not ok is django's ValidationError raised
FullClean(db, i) ==
    LET c == Clean(i)
    IN  [ok |-> CleanFieldsOk(i) /\ ValidateUniqueOk(db, c), instance |-> c]

\* DbSave on a table whose email column has no unique index
DbSave_NoUniqueIndex(db, nid, day, i) ==
    IF i.id # NoId /\ i.id \in DOMAIN db
    THEN [ok |-> TRUE, db |-> [db EXCEPT ![i.id] = RowOf(i)], id |-> i.id, nextId |-> nid]
    ELSE LET id == IF i.id # NoId THEN i.id ELSE nid
             row == RowOf([i EXCEPT !.date_joined = day])
         IN  [ok |-> TRUE,
              db |-> [k \in DOMAIN db \cup {id} |-> IF k = id THEN row ELSE db[k]],
              id |-> id,
              nextId |-> IF i.id # NoId THEN nid ELSE nid + 1]

\* DbSave whose INSERT is not checked against the unique index
DbSave_InsertUnchecked(db, nid, day, i) ==
    IF i.id # NoId /\ i.id \in DOMAIN db
    THEN IF EmailExists(db, i.email, i.id)
         THEN [ok |-> FALSE, db |-> db, id |-> i.id, nextId |-> nid]
         ELSE [ok |-> TRUE, db |-> [db EXCEPT ![i.id] = RowOf(i)], id |-> i.id,
               nextId |-> nid]
    ELSE DbSave_NoUniqueIndex(db, nid, day, i)

\* DbSave with date_joined declared auto_now: set on every save
DbSave_AutoNow(db, nid, day, i) ==
    LET id == IF i.id # NoId THEN i.id ELSE nid
        row == RowOf([i EXCEPT !.date_joined = day])
    IN  IF EmailExists(db, i.email, i.id)
        THEN [ok |-> FALSE, db |-> db, id |-> i.id, nextId |-> nid]
        ELSE [ok |-> TRUE,
              db |-> [k \in DOMAIN db \cup {id} |-> IF k = id THEN row ELSE db[k]],
              id |-> id,
              nextId |-> IF i.id # NoId THEN nid ELSE nid + 1]

\* super().save(): UPDATE the row of the instance's pk; when no row was
\* updated (no pk yet, or the row is gone) INSERT, the pk from the sequence
\* when the instance has none and date_joined set by auto_now_add.  The
\* unique index on email rejects the statement (IntegrityError): [ok, db, id].
DbSave(db, nid, day, i) ==
    IF i.id # NoId /\ i.id \in DOMAIN db
    THEN IF EmailExists(db, i.email, i.id)
         THEN [ok |-> FALSE, db |-> db, id |-> i.id, nextId |-> nid]
         ELSE [ok |-> TRUE, db |-> [db EXCEPT ![i.id] = RowOf(i)], id |-> i.id,
               nextId |-> nid]
    ELSE LET id == IF i.id # NoId THEN i.id ELSE nid
             row == RowOf([i EXCEPT !.date_joined = day])
         IN  IF EmailExists(db, i.email, NoId)
             THEN [ok |-> FALSE, db |-> db, id |-> i.id, nextId |-> nid]
             ELSE [ok |-> TRUE,
                   db |-> [k \in DOMAIN db \cup {id} |-> IF k = id THEN row ELSE db[k]],
                   id |-> id,
                   nextId |-> IF i.id # NoId THEN nid ELSE nid + 1]

\* Employee.save: [outcome, db, id, nextId]; outcome "ValidationError" and
\* "IntegrityError" are exceptions leaving save()
Save(db, nid, day, i) ==
    LET c == FullClean(db, i)
        w == DbSave(db, nid, day, c.instance)
    IN  IF ~c.ok THEN [outcome |-> "ValidationError", db |-> db, id |-> i.id, nextId |-> nid]
        ELSE IF ~w.ok THEN [outcome |-> "IntegrityError", db |-> db, id |-> i.id, nextId |-> nid]
        ELSE [outcome |-> "ok", db |-> w.db, id |-> w.id, nextId |-> w.nextId]

(***************************************************************************)
(* Responses.  errors maps a field name to its error codes; detail is the  *)
(* "detail" message of a non-field error; data is the sequence of          *)
(* projected records of the body (one for a detail response).              *)
(***************************************************************************)
NoErrors == [f \in {} |-> {}]

Response(status, errors, detail, data) ==
    [status |-> status, errors |-> errors, detail |-> detail, data |-> data]

\* Employee.get_department_display / get_role_display
Display(value) ==
    CASE value = "HR" -> "Human Resources"
      [] value = "Lead" -> "Team Lead"
      [] OTHER -> value

\* EmployeeSerializer(instance).data
Detail(id, row) ==
    [id |-> id, name |-> row.name, email |-> row.email,
     department |-> row.department, department_display |-> Display(row.department),
     role |-> row.role, role_display |-> Display(row.role),
     date_joined |-> row.date_joined]

\* permission_classes = [IsAuthenticated]: the request stops here
Unauthorized == Response(401, NoErrors, "Authentication credentials were not provided.", <<>>)
\* get_object(): get_object_or_404
NotFound == Response(404, NoErrors, "Not found.", <<>>)
\* an exception no handler of the view or of the framework catches
ServerError == Response(500, NoErrors, "", <<>>)

\* what a view gives: the response, and the table and sequence it leaves
Outcome(r, db, nid) == [resp |-> r, store |-> db, nextId |-> nid]

(***************************************************************************)
(* EmployeeListCreateView.create                                           *)
(***************************************************************************)
CreateView(db, nid, day, auth, body) ==
    IF ~auth THEN Outcome(Unauthorized, db, nid)
    ELSE LET v == EmployeeCreateSerializer_is_valid(db, body)
         IN  IF DOMAIN v.errors # {}
             THEN Outcome(Response(400, v.errors, "", <<>>), db, nid)
             ELSE LET s == Save(db, nid, day, NewInstance(v.data))
                  IN  IF s.outcome # "ok" THEN Outcome(ServerError, db, nid)
                      ELSE Outcome(Response(201, NoErrors, "", <<Detail(s.id, s.db[s.id])>>),
                                   s.db, s.nextId)

(***************************************************************************)
(* EmployeeRetrieveUpdateDestroyView                                       *)
(***************************************************************************)
RetrieveView(db, nid, auth, id) ==
    IF ~auth THEN Outcome(Unauthorized, db, nid)
    ELSE IF id \notin DOMAIN db THEN Outcome(NotFound, db, nid)
    ELSE Outcome(Response(200, NoErrors, "", <<Detail(id, db[id])>>), db, nid)

\* update that creates the row when the pk matches none
UpdateView_Upsert(db, nid, day, auth, id, body, partial) ==
    IF ~auth THEN Outcome(Unauthorized, db, nid)
    ELSE LET v == EmployeeSerializer_is_valid(db, id, body, partial)
             old == IF id \in DOMAIN db THEN Instance(id, db[id])
                    ELSE [NoInstance EXCEPT !.id = id]
         IN  IF DOMAIN v.errors # {}
             THEN Outcome(Response(400, v.errors, "", <<>>), db, nid)
             ELSE LET s == Save(db, nid, day, EmployeeSerializer_update(old, v.data))
                  IN  IF s.outcome # "ok" THEN Outcome(ServerError, db, nid)
                      ELSE Outcome(Response(200, NoErrors, "", <<Detail(s.id, s.db[s.id])>>),
                                   s.db, s.nextId)

\* update, and partial_update (partial = TRUE)
UpdateView(db, nid, day, auth, id, body, partial) ==
    IF ~auth THEN Outcome(Unauthorized, db, nid)
    ELSE IF id \notin DOMAIN db THEN Outcome(NotFound, db, nid)
    ELSE LET v == EmployeeSerializer_is_valid(db, id, body, partial)
         IN  IF DOMAIN v.errors # {}
             THEN Outcome(Response(400, v.errors, "", <<>>), db, nid)
             ELSE LET i == EmployeeSerializer_update(Instance(id, db[id]), v.data)
                      s == Save(db, nid, day, i)
                  IN  IF s.outcome # "ok" THEN Outcome(ServerError, db, nid)
                      ELSE Outcome(Response(200, NoErrors, "", <<Detail(s.id, s.db[s.id])>>),
                                   s.db, s.nextId)

\* instance.delete()
DbDelete(db, id) == [k \in DOMAIN db \ {id} |-> db[k]]

\* destroy without permission_classes
DestroyView_NoPermission(db, nid, auth, id) ==
    IF id \notin DOMAIN db THEN Outcome(NotFound, db, nid)
    ELSE Outcome(Response(204, NoErrors, "", <<>>), DbDelete(db, id), nid)

DestroyView(db, nid, auth, id) ==
    IF ~auth THEN Outcome(Unauthorized, db, nid)
    ELSE IF id \notin DOMAIN db THEN Outcome(NotFound, db, nid)
    ELSE Outcome(Response(204, NoErrors, "", <<>>), DbDelete(db, id), nid)

(***************************************************************************)
(* EmployeeListCreateView.list: filter_queryset (DjangoFilterBackend,      *)
(* SearchFilter, OrderingFilter in this order), then EmployeePagination.   *)
(* A query is a function whose DOMAIN is the set of parameters it holds.   *)
(***************************************************************************)
\* code points, for ORDER BY on name and email
CharCode(c) ==
    CASE c = " " -> 32 [] c = "." -> 46
      [] c = "0" -> 48 [] c = "1" -> 49 [] c = "2" -> 50 [] c = "3" -> 51 [] c = "4" -> 52
      [] c = "5" -> 53 [] c = "6" -> 54 [] c = "7" -> 55 [] c = "8" -> 56 [] c = "9" -> 57
      [] c = "@" -> 64 [] c = "A" -> 65 [] c = "B" -> 66 [] c = "X" -> 88
      [] c = "a" -> 97 [] c = "b" -> 98 [] c = "e" -> 101 [] c = "i" -> 105
      [] c = "l" -> 108 [] c = "o" -> 111 [] c = "x" -> 120
      [] OTHER -> 127

RECURSIVE StrLess(_, _)
StrLess(s, t) ==
    IF t = <<>> THEN FALSE
    ELSE IF s = <<>> THEN TRUE
    ELSE IF CharCode(Head(s)) # CharCode(Head(t)) THEN CharCode(Head(s)) < CharCode(Head(t))
    ELSE StrLess(Tail(s), Tail(t))

\* icontains
Contains(s, t) ==
    \E k \in 0..(Len(s) - Len(t)) : SubSeq(StrLower(s), k + 1, k + Len(t)) = StrLower(t)

\* DjangoFilterBackend, filterset_fields = ['department', 'role']: a filter
\* on a field with choices accepts a choice or nothing
FilterErrors(q) ==
    LET bad(key, choices) == key \in DOMAIN q /\ q[key] # "" /\ q[key] \notin choices
        keys == {k \in {"department", "role"} :
                    bad(k, IF k = "department" THEN DepartmentChoices ELSE RoleChoices)}
    IN  [k \in keys |-> {"invalid_choice"}]

\* a filter backend with filterset_fields = ['role'] only
Filtered_RoleOnly(db, q) ==
    {i \in DOMAIN db : ("role" \in DOMAIN q /\ q.role # "") => db[i].role = q.role}

Filtered(db, q) ==
    {i \in DOMAIN db :
        /\ ("department" \in DOMAIN q /\ q.department # "") => db[i].department = q.department
        /\ ("role" \in DOMAIN q /\ q.role # "") => db[i].role = q.role}

\* SearchFilter, search_fields = ['name', 'email']
Searched(db, ids, q) ==
    IF "search" \notin DOMAIN q \/ q.search = <<>> THEN ids
    ELSE {i \in ids : Contains(db[i].name, q.search) \/ Contains(db[i].email, q.search)}

\* OrderingFilter, ordering_fields = ['name', 'email', 'date_joined'],
\* ordering = ['-date_joined']: a term outside ordering_fields is dropped
\* and the view's default stands
OrderingOf(q) ==
    IF "ordering" \in DOMAIN q
       /\ q.ordering \in {"name", "-name", "email", "-email", "date_joined", "-date_joined"}
    THEN q.ordering
    ELSE "-date_joined"

\* row a sorts strictly before row b under ORDER BY term
Before(a, b, term) ==
    CASE term = "name" -> StrLess(a.name, b.name)
      [] term = "-name" -> StrLess(b.name, a.name)
      [] term = "email" -> StrLess(a.email, b.email)
      [] term = "-email" -> StrLess(b.email, a.email)
      [] term = "date_joined" -> a.date_joined < b.date_joined
      [] term = "-date_joined" -> a.date_joined > b.date_joined

\* the order in which the engine returns rows that ORDER BY leaves equal
\* is its own choice, made at each SELECT: by ascending or by descending pk
TieOrders == {"pk", "-pk"}

Precedes(db, term, tie, i, j) ==
    \/ Before(db[i], db[j], term)
    \/ /\ ~Before(db[j], db[i], term)
       /\ IF tie = "pk" THEN i < j ELSE i > j

RECURSIVE OrderBy(_, _, _, _)
OrderBy(db, ids, term, tie) ==
    IF ids = {} THEN <<>>
    ELSE LET first == CHOOSE i \in ids : \A j \in ids \ {i} : Precedes(db, term, tie, i, j)
         IN  <<first>> \o OrderBy(db, ids \ {first}, term, tie)

\* Employee.department_display / role_display
DisplayOrNotAssigned(value) ==
    IF value = Null \/ value = "" THEN "Not Assigned" ELSE Display(value)

\* EmployeeListSerializer(instance).data
ListItem(id, row) ==
    [id |-> id, name |-> row.name, email |-> row.email,
     department |-> row.department, department_name |-> DisplayOrNotAssigned(row.department),
     role |-> row.role, role_name |-> DisplayOrNotAssigned(row.role),
     date_joined |-> row.date_joined]

\* EmployeePagination.get_page_size: a page_size that is no positive integer
\* falls back to the default, one above max_page_size is cut to it
PageSizeOf(q) ==
    IF "page_size" \in DOMAIN q /\ q.page_size >= 1
    THEN IF q.page_size > MaxPageSize THEN MaxPageSize ELSE q.page_size
    ELSE PageSize

PageOf(q) == IF "page" \in DOMAIN q THEN q.page ELSE 1

\* Paginator.num_pages, allow_empty_first_page
NumPages(count, size) == IF count = 0 THEN 1 ELSE (count + size - 1) \div size

\* the paginated envelope; next and previous are page numbers, 0 for null
ListResponse(count, next, previous, results) ==
    [status |-> 200, errors |-> NoErrors, detail |-> "", data |-> results,
     count |-> count, next |-> next, previous |-> previous]

ListView(db, auth, q, tie) ==
    IF ~auth THEN Unauthorized
    ELSE IF DOMAIN FilterErrors(q) # {} THEN Response(400, FilterErrors(q), "", <<>>)
    ELSE LET ids == Searched(db, Filtered(db, q), q)
             count == Cardinality(ids)
             size == PageSizeOf(q)
             page == PageOf(q)
             rows == OrderBy(db, ids, OrderingOf(q), tie)
             last == IF page * size < count THEN page * size ELSE count
         IN  IF page < 1 \/ page > NumPages(count, size)
             THEN Response(404, NoErrors, "Invalid page.", <<>>)
             ELSE ListResponse(count,
                               IF page < NumPages(count, size) THEN page + 1 ELSE 0,
                               IF page > 1 THEN page - 1 ELSE 0,
                               [k \in 1..(last - (page - 1) * size) |->
                                   ListItem(rows[(page - 1) * size + k],
                                            db[rows[(page - 1) * size + k]])])

(***************************************************************************)
(* Requests the model sends.                                               *)
(***************************************************************************)
Al == <<"A", "l">>
BoPadded == <<" ", "B", "o", " ">>
Blank == <<" ">>
MailA == <<"a", "@", "x", ".", "i", "o">>
MailAUpper == <<" ", "A", "@", "X", ".", "i", "o", " ">>
MailB == <<"b", "@", "x", ".", "i", "o">>
MailBad == <<"a", "b">>

EmptyBody == [f \in {} |-> <<>>]

\* bodies that hold name and email, both acceptable
CoreBodies == [name : {Al, BoPadded}, email : {MailA, MailAUpper, MailB}]

ValidBodies ==
    CoreBodies
    \cup {b @@ [department |-> "HR"] : b \in CoreBodies}
    \cup {b @@ [role |-> "Lead"] : b \in CoreBodies}
    \cup {b @@ [department |-> "HR", role |-> "Lead"] : b \in CoreBodies}

InvalidBodies ==
    {[name |-> Blank, email |-> MailA],
     [name |-> Al, email |-> MailBad],
     [name |-> Al, email |-> MailB, department |-> "Bogus"],
     [name |-> Al, email |-> MailB, role |-> "Bogus"],
     [name |-> Blank, email |-> MailBad, department |-> "Bogus"]}

PartialBodies ==
    {EmptyBody,
     [name |-> Al], [name |-> BoPadded], [name |-> Blank],
     [email |-> MailA], [email |-> MailAUpper], [email |-> MailB], [email |-> MailBad],
     [department |-> "HR"], [department |-> "Bogus"],
     [role |-> "Lead"], [role |-> "Bogus"]}

\* bodies that also carry the read-only keys
ReadOnlyKeyBodies ==
    {[name |-> Al, email |-> MailA, id |-> 9, date_joined |-> 7],
     [name |-> BoPadded, id |-> 9, date_joined |-> 7],
     [department |-> "HR", date_joined |-> 7]}

Bodies == ValidBodies \cup InvalidBodies \cup PartialBodies \cup ReadOnlyKeyBodies

\* the pk values of the URLs
UrlIds == 1..MaxId

\* a request without a credential stops before its body is read
UnauthBodies == {EmptyBody, [name |-> Al, email |-> MailB]}

(***************************************************************************)
(* Initial state.                                                          *)
(***************************************************************************)
Procs == {"p1", "p2"}

EmptyTable == [k \in {} |-> Row(<<>>, <<>>, Null, Null, 0)]
NoResponse == Response(0, NoErrors, "", <<>>)

Init ==
    /\ store = EmptyTable
    /\ nextId = 1
    /\ today = 0
    /\ pc = [p \in Procs |-> "idle"]
    /\ inst = [p \in Procs |-> NoInstance]
    /\ resp = [p \in Procs |-> NoResponse]
    /\ listing = <<>>

(***************************************************************************)
(* Sequential specification: one request at a time, each view run whole.   *)
(***************************************************************************)
Apply(o) ==
    /\ store' = o.store
    /\ nextId' = o.nextId
    /\ UNCHANGED <<today, pc, inst, resp, listing>>

Create(auth, body) ==
    /\ nextId <= MaxId
    /\ Apply(CreateView(store, nextId, today, auth, body))

Retrieve(auth, id) == Apply(RetrieveView(store, nextId, auth, id))

Update(auth, id, body) == Apply(UpdateView(store, nextId, today, auth, id, body, FALSE))

PartialUpdate(auth, id, body) ==
    Apply(UpdateView(store, nextId, today, auth, id, body, TRUE))

Destroy(auth, id) == Apply(DestroyView(store, nextId, auth, id))

ListQueries ==
    {[f \in {} |-> 0], [page |-> 2], [department |-> "HR"], [ordering |-> "name"]}

\* the list view only reads
List(auth, q, tie) == Apply(Outcome(ListView(store, auth, q, tie), store, nextId))

\* midnight
Tick ==
    /\ today < MaxDay
    /\ today' = today + 1
    /\ UNCHANGED <<store, nextId, pc, inst, resp, listing>>

Next ==
    \/ \E auth \in BOOLEAN, q \in ListQueries, tie \in TieOrders : List(auth, q, tie)
    \/ \E body \in Bodies : Create(TRUE, body)
    \/ \E body \in UnauthBodies : Create(FALSE, body)
    \/ \E auth \in BOOLEAN, id \in UrlIds : Retrieve(auth, id)
    \/ \E id \in UrlIds, body \in Bodies : Update(TRUE, id, body)
    \/ \E id \in UrlIds, body \in UnauthBodies : Update(FALSE, id, body)
    \/ \E id \in UrlIds, body \in Bodies : PartialUpdate(TRUE, id, body)
    \/ \E id \in UrlIds, body \in UnauthBodies : PartialUpdate(FALSE, id, body)
    \/ \E auth \in BOOLEAN, id \in UrlIds : Destroy(auth, id)
    \/ Tick

Spec == Init /\ [][Next]_vars

(***************************************************************************)
(* Concurrent specification: each of the two request handlers runs its     *)
(* view one database call at a time, and the calls of the two interleave.  *)
(* pc is "idle" between requests, and otherwise names the call the handler *)
(* makes next: "is_valid", "delete" (after get_object), "full_clean",      *)
(* "db_save" (inside Employee.save).                                       *)
(***************************************************************************)
RaceBodies ==
    {[name |-> Al, email |-> MailA], [name |-> Al, email |-> MailAUpper],
     [name |-> Al, email |-> MailB], [name |-> BoPadded, email |-> MailA],
     [email |-> MailA], [email |-> MailB], [name |-> BoPadded]}

RaceUrlIds == 1..RaceMaxId

\* the handler returns r; its instance is dropped with it
Respond(p, r) ==
    /\ resp' = [resp EXCEPT ![p] = r]
    /\ pc' = [pc EXCEPT ![p] = "idle"]
    /\ inst' = [inst EXCEPT ![p] = NoInstance]

Goto(p, label, i) ==
    /\ pc' = [pc EXCEPT ![p] = label]
    /\ inst' = [inst EXCEPT ![p] = i]
    /\ resp' = [resp EXCEPT ![p] = NoResponse]

\* create: serializer.is_valid(), and serializer.save() up to Employee.save()
CreateValidate(p, body) ==
    /\ pc[p] = "idle"
    /\ LET v == EmployeeCreateSerializer_is_valid(store, body)
       IN  IF DOMAIN v.errors # {}
           THEN Respond(p, Response(400, v.errors, "", <<>>))
           ELSE Goto(p, "full_clean", NewInstance(v.data))
    /\ UNCHANGED <<store, nextId, today, listing>>

\* update, partial_update, destroy: self.get_object()
GetObject(p, id, then) ==
    /\ pc[p] = "idle"
    /\ IF id \notin DOMAIN store
       THEN Respond(p, NotFound)
       ELSE Goto(p, then, Instance(id, store[id]))
    /\ UNCHANGED <<store, nextId, today, listing>>

\* update, partial_update: serializer.is_valid(), and serializer.save() up
\* to instance.save()
UpdateValidate(p, body, partial) ==
    /\ pc[p] = "is_valid"
    /\ LET v == EmployeeSerializer_is_valid(store, inst[p].id, body, partial)
       IN  IF DOMAIN v.errors # {}
           THEN Respond(p, Response(400, v.errors, "", <<>>))
           ELSE Goto(p, "full_clean", EmployeeSerializer_update(inst[p], v.data))
    /\ UNCHANGED <<store, nextId, today, listing>>

\* Employee.save: self.full_clean(); its ValidationError is caught nowhere
FullCleanStep(p) ==
    /\ pc[p] = "full_clean"
    /\ LET c == FullClean(store, inst[p])
       IN  IF c.ok THEN Goto(p, "db_save", c.instance)
           ELSE Respond(p, ServerError)
    /\ UNCHANGED <<store, nextId, today, listing>>

\* Employee.save: super().save(); its IntegrityError is caught nowhere
DbSaveStep(p) ==
    /\ pc[p] = "db_save"
    /\ LET w == DbSave(store, nextId, today, inst[p])
       IN  IF w.ok
           THEN /\ store' = w.db
                /\ nextId' = w.nextId
                /\ Respond(p, Response(IF inst[p].id = NoId THEN 201 ELSE 200, NoErrors, "",
                                       <<Detail(w.id, w.db[w.id])>>))
           ELSE /\ UNCHANGED <<store, nextId>>
                /\ Respond(p, ServerError)
    /\ UNCHANGED <<today, listing>>

\* destroy: instance.delete()
DeleteStep(p) ==
    /\ pc[p] = "delete"
    /\ store' = DbDelete(store, inst[p].id)
    /\ Respond(p, Response(204, NoErrors, "", <<>>))
    /\ UNCHANGED <<nextId, today, listing>>

NextConc ==
    \E p \in Procs :
        \/ \E body \in RaceBodies : nextId <= RaceMaxId /\ CreateValidate(p, body)
        \/ \E id \in RaceUrlIds, then \in {"is_valid", "delete"} : GetObject(p, id, then)
        \/ \E body \in RaceBodies, partial \in BOOLEAN : UpdateValidate(p, body, partial)
        \/ FullCleanStep(p)
        \/ DbSaveStep(p)
        \/ DeleteStep(p)

SpecConc == Init /\ [][NextConc]_vars

(***************************************************************************)
(* Race specification: the two handlers each serve one create request, and *)
(* the two requests carry the same normalized email, which no row holds.   *)
(***************************************************************************)
SameMailBodies == {b \in ValidBodies : NormalizeEmail(b.email) = MailA /\ "role" \notin DOMAIN b}

OtherRow == Row(Al, MailB, Null, Null, 0)

InitRace ==
    /\ \/ store = EmptyTable /\ nextId = 1
       \/ store = [k \in {1} |-> OtherRow] /\ nextId = 2
       \/ store = EmptyTable /\ nextId = 2
    /\ today \in 0..MaxDay
    /\ pc = [p \in Procs |-> "idle"]
    /\ inst = [p \in Procs |-> NoInstance]
    /\ resp = [p \in Procs |-> NoResponse]
    /\ listing = <<>>

NextRace ==
    \E p \in Procs :
        \/ \E body \in SameMailBodies : resp[p] = NoResponse /\ CreateValidate(p, body)
        \/ FullCleanStep(p)
        \/ DbSaveStep(p)

SpecRace == InitRace /\ [][NextRace]_vars

(***************************************************************************)
(* List specification: the table holds n rows, created one after another   *)
(* on one day or on two, and list requests with default settings fetch its *)
(* pages; listing keeps the response last received for each page number.   *)
(***************************************************************************)
Bo == <<"B", "o">>
DigitChars == <<"0", "1", "2", "3", "4", "5", "6", "7", "8", "9">>
Digits(i) ==
    IF i < 10 THEN <<DigitChars[i + 1]>>
    ELSE <<DigitChars[(i \div 10) + 1], DigitChars[(i % 10) + 1]>>

\* the i-th row created; the first `split` rows were created on day 0
GenRow(i, split) ==
    Row(IF i % 2 = 1 THEN Bo ELSE Al,
        <<"e">> \o Digits(i) \o <<"@", "x", ".", "i", "o">>,
        CASE i % 3 = 1 -> "HR" [] i % 3 = 2 -> Null [] OTHER -> "Engineering",
        IF i % 2 = 1 THEN Null ELSE "Lead",
        IF i <= split THEN 0 ELSE 1)

NoListing == [k \in {} |-> NoResponse]

InitList ==
    /\ \E n \in 0..MaxRecords, split \in 0..MaxRecords :
          /\ split <= n
          /\ store = [i \in 1..n |-> GenRow(i, split)]
          /\ nextId = n + 1
          /\ today = IF split < n THEN 1 ELSE 0
    /\ pc = [p \in Procs |-> "idle"]
    /\ inst = [p \in Procs |-> NoInstance]
    /\ resp = [p \in Procs |-> NoResponse]
    /\ listing = NoListing

\* the page numbers asked for: every page of the table and one beyond
ListPages == 1..(NumPages(MaxRecords, PageSize) + 1)

ListPage(page, tie) ==
    /\ listing' = [k \in DOMAIN listing \cup {page} |->
                      IF k = page THEN ListView(store, TRUE, [page |-> page], tie)
                      ELSE listing[k]]
    /\ UNCHANGED <<store, nextId, today, pc, inst, resp>>

NextList == \E page \in ListPages, tie \in TieOrders : ListPage(page, tie)

SpecList == InitList /\ [][NextList]_vars

(***************************************************************************)
(* Choice specification: create, update, partial update and delete, one    *)
(* request at a time, with bodies that carry every kind of department and  *)
(* role value: of the enumeration, blank, null, of another case, unknown.  *)
(***************************************************************************)
DepartmentValues == {"HR", "", Null, "Bogus", "hr"}
RoleValues == {"Lead", "", Null, "Bogus"}

\* the department / role part of a body
ChoiceParts ==
    {EmptyBody}
    \cup [department : DepartmentValues]
    \cup [role : RoleValues]
    \cup [department : DepartmentValues, role : RoleValues]

ChoiceBodies ==
    ChoiceParts \cup {[name |-> Al, email |-> e] @@ c : e \in {MailA, MailB}, c \in ChoiceParts}

NextChoices ==
    \/ \E body \in ChoiceBodies : Create(TRUE, body)
    \/ \E id \in UrlIds, body \in ChoiceBodies : Update(TRUE, id, body)
    \/ \E id \in UrlIds, body \in ChoiceBodies : PartialUpdate(TRUE, id, body)
    \/ \E id \in UrlIds : Destroy(TRUE, id)

SpecChoices == Init /\ [][NextChoices]_vars

(***************************************************************************)
(* Claims.                                                                 *)
(***************************************************************************)
RowsWithEmail(db, e) == {i \in DOMAIN db : NormalizeEmail(db[i].email) = e}

\* C1: in every reachable state of the table, whatever create, update,
\* partial update and delete requests ran, succeeded or failed, and however
\* their database calls interleaved, no two distinct rows have emails that
\* are equal after normalization (trim + lowercase).
C1_EmailsUnique ==
    \A i, j \in DOMAIN store :
        i # j => NormalizeEmail(store[i].email) # NormalizeEmail(store[j].email)

\* two rows are stored and a handler has just been refused a write
C1_Witness ==
    /\ Cardinality(DOMAIN store) = 2
    /\ \E p \in Procs : resp[p].status = 500

RaceDone == \A p \in Procs : pc[p] = "idle" /\ resp[p] # NoResponse

\* C2: when two create requests with the same normalized email, which no
\* row held beforehand, run concurrently with their database calls
\* interleaved in any order, the table never holds two rows of that email,
\* and once both are answered exactly one was answered 201 and stored its
\* row, the other was answered with an error status, and the table holds
\* exactly one row of that email.
C2_ExactlyOneCreateWins ==
    /\ Cardinality(RowsWithEmail(store, MailA)) <= 1
    /\ RaceDone =>
          /\ Cardinality(RowsWithEmail(store, MailA)) = 1
          /\ \E p \in Procs :
                /\ resp[p].status = 201
                /\ resp[p].data[1].id \in RowsWithEmail(store, MailA)
                /\ \A q \in Procs \ {p} : resp[q].status \in {400, 500} /\ resp[q].data = <<>>

\* both requests are answered, and the loser had passed is_valid()
C2_Witness ==
    /\ RaceDone
    /\ \E p, q \in Procs : resp[p].status = 201 /\ resp[q].status = 500

\* the handler holds an instance that is_valid() accepted, and a row of
\* another pk now holds its email
LosesRace(p) ==
    /\ pc[p] \in {"full_clean", "db_save"}
    /\ EmailExists(store, NormalizeEmail(inst[p].email), inst[p].id)

\* C3: a create or update request that passed is_valid() and then finds, at
\* full_clean() or at the INSERT/UPDATE, that another request stored its
\* email in between, is answered 400 with an error keyed by email.
C3_LostRaceAnswered400 ==
    [][\A p \in Procs :
          (LosesRace(p) /\ pc'[p] = "idle")
              => (resp'[p].status = 400 /\ "email" \in DOMAIN resp'[p].errors)]_vars

\* a body a serializer has no reason to refuse, whatever the table holds
WellFormed(body, partial) ==
    /\ partial \/ {"name", "email"} \subseteq DOMAIN body
    /\ "name" \in DOMAIN body => StrStrip(body.name) # <<>>
    /\ "email" \in DOMAIN body => ValidEmailFormat(StrStrip(body.email))
    /\ "department" \in DOMAIN body => body.department \in DepartmentChoices
    /\ "role" \in DOMAIN body => body.role \in RoleChoices

\* C4: for every table and every create request whose email, after trim +
\* lowercase, equals the email of a stored row, the create is answered 400
\* with an error keyed by email, and the table and the id sequence are left
\* as they were.
C4_DuplicateCreateRejected ==
    \A body \in Bodies :
        ("email" \in DOMAIN body /\ EmailExists(store, NormalizeEmail(body.email), NoId))
        => LET o == CreateView(store, nextId, today, TRUE, body)
           IN  /\ o.resp.status = 400
               /\ "email" \in DOMAIN o.resp.errors
               /\ o.store = store
               /\ o.nextId = nextId

\* a row holds a@x.io, and a create with " A@X.io " is refused as a duplicate
C4_Witness ==
    /\ \E i \in DOMAIN store : store[i].email = MailA
    /\ CreateView(store, nextId, today, TRUE, [name |-> Al, email |-> MailAUpper]).resp
          = Response(400, [f \in {"email"} |-> {"unique"}], "", <<>>)

\* C5: for every stored row, a full or partial update whose email equals,
\* after normalization, that row's own email gets no error on email; when
\* the rest of the body is well formed it is answered 200, and the row
\* holds the submitted name (trimmed), department and role, an omitted
\* field keeping its value.
C5_OwnEmailAccepted ==
    \A id \in DOMAIN store, body \in Bodies, partial \in BOOLEAN :
        ("email" \in DOMAIN body /\ NormalizeEmail(body.email) = store[id].email)
        => LET o == UpdateView(store, nextId, today, TRUE, id, body, partial)
           IN  /\ "email" \notin DOMAIN o.resp.errors
               /\ WellFormed(body, partial) =>
                     /\ o.resp.status = 200
                     /\ o.store[id].email = store[id].email
                     /\ o.store[id].name =
                           IF "name" \in DOMAIN body THEN StrStrip(body.name)
                           ELSE store[id].name
                     /\ o.store[id].department = Get(body, "department", store[id].department)
                     /\ o.store[id].role = Get(body, "role", store[id].role)

\* two rows are stored, and a PUT of one with its own email in another case
\* and a new name is answered 200
C5_Witness ==
    /\ Cardinality(DOMAIN store) = 2
    /\ \E id \in DOMAIN store :
          /\ store[id].email = MailA /\ store[id].name = Al
          /\ UpdateView(store, nextId, today, TRUE, id,
                        [name |-> BoPadded, email |-> MailAUpper], FALSE).resp.status = 200

\* C6: list, create, retrieve, update, partial update and delete without a
\* valid credential are each answered 401, and leave the table and the id
\* sequence as they were.
C6_UnauthenticatedTouchesNothing ==
    LET same(o) == o.resp.status = 401 /\ o.store = store /\ o.nextId = nextId
    IN  /\ \A q \in ListQueries, tie \in TieOrders :
              ListView(store, FALSE, q, tie).status = 401
        /\ \A body \in Bodies : same(CreateView(store, nextId, today, FALSE, body))
        /\ \A id \in UrlIds :
              /\ same(RetrieveView(store, nextId, FALSE, id))
              /\ same(DestroyView(store, nextId, FALSE, id))
              /\ \A body \in Bodies, partial \in BOOLEAN :
                    same(UpdateView(store, nextId, today, FALSE, id, body, partial))

\* a row is stored that a DELETE with a credential removes and a DELETE
\* without one leaves
C6_Witness ==
    \E id \in DOMAIN store :
        /\ DestroyView(store, nextId, FALSE, id).resp.status = 401
        /\ DestroyView(store, nextId, TRUE, id).store # store

\* C7: for every id that is not in the table (never given, or given and
\* deleted since), retrieve, update, partial update and delete are each
\* answered 404 with a detail message and leave the table as it was; the
\* only id a request ever adds is the next of the sequence, which is above
\* every id given before, so that no deleted row comes back.
C7_AbsentIdIs404 ==
    LET same(o) ==
            /\ o.resp.status = 404 /\ o.resp.detail # ""
            /\ o.store = store /\ o.nextId = nextId
    IN  /\ DOMAIN store \subseteq 1..(nextId - 1)
        /\ \A body \in Bodies :
              DOMAIN CreateView(store, nextId, today, TRUE, body).store
                  \subseteq DOMAIN store \cup {nextId}
        /\ \A id \in (UrlIds \cup {nextId}) \ DOMAIN store :
              /\ same(RetrieveView(store, nextId, TRUE, id))
              /\ same(DestroyView(store, nextId, TRUE, id))
              /\ \A body \in Bodies, partial \in BOOLEAN :
                    same(UpdateView(store, nextId, today, TRUE, id, body, partial))

\* one row is stored, another was deleted, and a well-formed PUT of the
\* deleted id is answered 404
C7_Witness ==
    /\ store # EmptyTable
    /\ \E id \in 1..(nextId - 1) :
          /\ id \notin DOMAIN store
          /\ UpdateView(store, nextId, today, TRUE, id,
                        [name |-> Al, email |-> MailB], FALSE).resp.status = 404

\* a create request that is_valid() has no reason to refuse
ValidCreate(db, body) ==
    /\ WellFormed(body, FALSE)
    /\ ~EmailExists(db, NormalizeEmail(body.email), NoId)

\* the record a retrieve returns right after a create of body was answered
RetrievedAfterCreate(body) ==
    LET c == CreateView(store, nextId, today, TRUE, body)
    IN  RetrieveView(c.store, c.nextId, TRUE, c.resp.data[1].id).resp

\* C8, as stated: after a valid create, a retrieve of the returned id
\* returns the name, email, department and role exactly as submitted, and
\* date_joined = the creation date.
C8_RoundTripVerbatim ==
    \A body \in Bodies :
        ValidCreate(store, body)
        => /\ CreateView(store, nextId, today, TRUE, body).resp.status = 201
           /\ LET r == RetrievedAfterCreate(body)
              IN  /\ r.status = 200
                  /\ r.data[1].name = body.name
                  /\ r.data[1].email = body.email
                  /\ r.data[1].department = Get(body, "department", Null)
                  /\ r.data[1].role = Get(body, "role", Null)
                  /\ r.data[1].date_joined = today

\* C8, amended: after a valid create, a retrieve of the returned id returns
\* the submitted name trimmed, the submitted email trimmed and lower-cased,
\* the submitted department and role (null for one that was omitted), and
\* date_joined = the creation date.
C8_RoundTripNormalized ==
    \A body \in Bodies :
        ValidCreate(store, body)
        => /\ CreateView(store, nextId, today, TRUE, body).resp.status = 201
           /\ LET r == RetrievedAfterCreate(body)
              IN  /\ r.status = 200
                  /\ r.data[1].name = StrStrip(body.name)
                  /\ r.data[1].email = NormalizeEmail(body.email)
                  /\ r.data[1].department = Get(body, "department", Null)
                  /\ r.data[1].role = Get(body, "role", Null)
                  /\ r.data[1].date_joined = today

\* a row was created on an earlier day, and a create with a padded name,
\* an upper-case email and a role is answered 201
C8_Witness ==
    /\ \E i \in DOMAIN store : store[i].date_joined < today
    /\ LET body == [name |-> BoPadded, email |-> MailAUpper, role |-> "Lead"]
       IN  /\ ValidCreate(store, body)
           /\ RetrievedAfterCreate(body).data[1].role = "Lead"

\* a body without the read-only keys
Writable(body) == [f \in DOMAIN body \cap WritableFields |-> body[f]]

\* every row of db is in the table o leaves, under its id and with its
\* date_joined
KeepsIdAndDate(db, o) ==
    \A k \in DOMAIN db : k \in DOMAIN o.store /\ o.store[k].date_joined = db[k].date_joined

\* C9: a row's id and date_joined are fixed at creation: a create gives the
\* new row the next id of the sequence and the current date; no create,
\* update or partial update changes the id or date_joined of a stored row
\* or adds a row under another id; a body that carries id or date_joined is
\* served as the same body without them; and from one state to the next a
\* row that stays in the table keeps its date_joined.
C9_IdAndDateJoinedFixed ==
    /\ [](/\ \A body \in Bodies :
               LET o == CreateView(store, nextId, today, TRUE, body)
               IN  /\ KeepsIdAndDate(store, o)
                   /\ o.resp.status = 201 =>
                         /\ DOMAIN o.store = DOMAIN store \cup {nextId}
                         /\ o.resp.data[1].id = nextId
                         /\ o.store[nextId].date_joined = today
          /\ \A id \in DOMAIN store, body \in Bodies, partial \in BOOLEAN :
               LET o == UpdateView(store, nextId, today, TRUE, id, body, partial)
               IN  /\ KeepsIdAndDate(store, o)
                   /\ DOMAIN o.store = DOMAIN store
          /\ \A body \in ReadOnlyKeyBodies :
               /\ CreateView(store, nextId, today, TRUE, body)
                     = CreateView(store, nextId, today, TRUE, Writable(body))
               /\ \A id \in DOMAIN store, partial \in BOOLEAN :
                     UpdateView(store, nextId, today, TRUE, id, body, partial)
                        = UpdateView(store, nextId, today, TRUE, id, Writable(body), partial))
    /\ [][\A k \in DOMAIN store \cap DOMAIN store' :
             store'[k].date_joined = store[k].date_joined]_vars

\* a row created on an earlier day is updated by a PATCH that carries id
\* and date_joined
C9_Witness ==
    \E k \in DOMAIN store :
        /\ store[k].date_joined < today
        /\ UpdateView(store, nextId, today, TRUE, k,
                      [name |-> BoPadded, id |-> 9, date_joined |-> 7], TRUE).resp.status = 200

Min(a, b) == IF a < b THEN a ELSE b

PageIds(r) == {r.data[k].id : k \in 1..Len(r.data)}

\* the page numbers that exist for the table, by the claim's ceil(N/10)
ClaimedPages(n) == 1..((n + PageSize - 1) \div PageSize)

\* C10: with default settings, for a table of N rows, page p
\* (1 <= p <= ceil(N/10)) returns exactly min(10, N - 10*(p-1)) results and
\* count = N; the pages received for one table are pairwise disjoint, and
\* together they cover all N rows.
C10_PagesPartitionRows ==
    LET n == Cardinality(DOMAIN store)
        got == DOMAIN listing \cap ClaimedPages(n)
    IN  /\ \A p \in got :
              /\ listing[p].status = 200
              /\ listing[p].count = n
              /\ Len(listing[p].data) = Min(PageSize, n - PageSize * (p - 1))
        /\ \A p, q \in got : p # q => PageIds(listing[p]) \cap PageIds(listing[q]) = {}
        /\ got = ClaimedPages(n) => UNION {PageIds(listing[p]) : p \in got} = DOMAIN store

\* C10, without the parts that compare two responses: each page has its
\* size and count = N.
C10_PageSizesAndCount ==
    LET n == Cardinality(DOMAIN store)
    IN  \A p \in DOMAIN listing \cap ClaimedPages(n) :
            /\ listing[p].status = 200
            /\ listing[p].count = n
            /\ Len(listing[p].data) = Min(PageSize, n - PageSize * (p - 1))

\* the queries of C11: a department, alone or with a search term, a page
\* size and a page number
DepartmentQueries(D) ==
    LET base == [department |-> D]
    IN  {base, base @@ [search |-> Bo], base @@ [page_size |-> 2],
         base @@ [page_size |-> 2, page |-> 2],
         base @@ [search |-> Al, page_size |-> 1, page |-> 2],
         base @@ [ordering |-> "name", page_size |-> 2, page |-> 2]}

\* the rows of department D that hold the search term of q, if q has one
DepartmentMatches(D, q) ==
    {i \in DOMAIN store :
        /\ store[i].department = D
        /\ "search" \in DOMAIN q =>
              (Contains(store[i].name, q.search) \/ Contains(store[i].email, q.search))}

\* C11: for every table and every department D of the enumeration, a list
\* with department=D returns only rows whose department is D, and count is
\* the number of such rows (of such rows that hold the search term, when one
\* is given); the filter comes before search, ordering and the page cut:
\* the page is min(size, count - size*(page-1)) rows of the filtered set,
\* and page 1 is always answered 200.
C11_DepartmentFilter ==
    \A D \in DepartmentChoices, tie \in TieOrders :
        \A q \in DepartmentQueries(D) :
            LET r == ListView(store, TRUE, q, tie)
                m == DepartmentMatches(D, q)
                size == IF "page_size" \in DOMAIN q THEN q.page_size ELSE PageSize
                page == IF "page" \in DOMAIN q THEN q.page ELSE 1
            IN  /\ page = 1 => r.status = 200
                /\ r.status = 200 =>
                      /\ r.count = Cardinality(m)
                      /\ PageIds(r) \subseteq m
                      /\ \A k \in 1..Len(r.data) : r.data[k].department = D
                      /\ Len(r.data) = Min(size, Cardinality(m) - size * (page - 1))
                      /\ Cardinality(PageIds(r)) = Len(r.data)

\* the table holds rows of HR, of another department and of none, a list
\* has been answered, and the second page of two of department=HR has rows
C11_Witness ==
    /\ listing # NoListing
    /\ \E i, j \in DOMAIN store : store[i].department = Null /\ store[j].department = "Engineering"
    /\ LET r == ListView(store, TRUE, [department |-> "HR", page_size |-> 2, page |-> 2], "pk")
       IN  r.status = 200 /\ Len(r.data) = 2 /\ r.count = 4

\* a department or role that stands for "not assigned": null, or blank
NotAssigned == {Null, ""}

\* a value a request carries under key that is neither of the enumeration
\* nor "not assigned"
CarriesOther(body, key, choices) ==
    key \in DOMAIN body /\ body[key] \notin choices \cup NotAssigned

\* the answer is a 400 with an error on key, and nothing was written
RejectedOn(o, key) ==
    /\ o.resp.status = 400
    /\ key \in DOMAIN o.resp.errors
    /\ o.store = store /\ o.nextId = nextId

\* C12: in every reachable table each row's department is not assigned or
\* one of the six departments, and each row's role is not assigned or one
\* of the six roles; a create, update or partial update that carries any
\* other value for one of the two is answered 400 with an error on that
\* field and writes nothing.
C12_ChoicesOnlyFromEnumerations ==
    /\ \A i \in DOMAIN store :
          /\ store[i].department \in DepartmentChoices \cup NotAssigned
          /\ store[i].role \in RoleChoices \cup NotAssigned
    /\ \A body \in ChoiceBodies :
          /\ CarriesOther(body, "department", DepartmentChoices) =>
                /\ RejectedOn(CreateView(store, nextId, today, TRUE, body), "department")
                /\ \A id \in DOMAIN store, partial \in BOOLEAN :
                      RejectedOn(UpdateView(store, nextId, today, TRUE, id, body, partial),
                                 "department")
          /\ CarriesOther(body, "role", RoleChoices) =>
                /\ RejectedOn(CreateView(store, nextId, today, TRUE, body), "role")
                /\ \A id \in DOMAIN store, partial \in BOOLEAN :
                      RejectedOn(UpdateView(store, nextId, today, TRUE, id, body, partial),
                                 "role")

\* a row has a department and a role, another has a blank department and
\* no role, and a PATCH of the first with department "hr" is answered 400
C12_Witness ==
    \E i, j \in DOMAIN store :
        /\ store[i].department = "HR" /\ store[i].role = "Lead"
        /\ store[j].department = "" /\ store[j].role = Null
        /\ UpdateView(store, nextId, today, TRUE, i,
                      [department |-> "hr"], TRUE).resp.status = 400

\* C13: a PUT of a stored row that is answered 200 leaves the row with the
\* name (trimmed), email (normalized), department and role of the request,
\* a department or role that the request omits being null afterwards, and
\* with its date_joined; a PUT without name or without email is answered
\* 400 and changes nothing.
C13_PutOverwritesAllFields ==
    \A id \in DOMAIN store, body \in Bodies :
        LET o == UpdateView(store, nextId, today, TRUE, id, body, FALSE)
        IN  /\ o.resp.status = 200 =>
                  /\ o.store[id].name = StrStrip(body.name)
                  /\ o.store[id].email = NormalizeEmail(body.email)
                  /\ o.store[id].department = Get(body, "department", Null)
                  /\ o.store[id].role = Get(body, "role", Null)
                  /\ o.store[id].date_joined = store[id].date_joined
            /\ ~({"name", "email"} \subseteq DOMAIN body) =>
                  /\ o.resp.status = 400
                  /\ o.store = store /\ o.nextId = nextId

\* C13, without the omitted fields: a PUT that is answered 200 leaves the
\* row with every field the request holds and with its date_joined, and a
\* PUT without name or without email is answered 400 and changes nothing.
C13_PutAppliesSubmittedFields ==
    \A id \in DOMAIN store, body \in Bodies :
        LET o == UpdateView(store, nextId, today, TRUE, id, body, FALSE)
        IN  /\ o.resp.status = 200 =>
                  /\ o.store[id].name = StrStrip(body.name)
                  /\ o.store[id].email = NormalizeEmail(body.email)
                  /\ "department" \in DOMAIN body => o.store[id].department = body.department
                  /\ "role" \in DOMAIN body => o.store[id].role = body.role
                  /\ o.store[id].date_joined = store[id].date_joined
            /\ ~({"name", "email"} \subseteq DOMAIN body) =>
                  /\ o.resp.status = 400
                  /\ o.store = store /\ o.nextId = nextId

\* the rows of the pages received, in page order
RECURSIVE Concat(_, _)
Concat(pages, upto) ==
    IF upto = 0 THEN <<>>
    ELSE Concat(pages, upto - 1)
            \o (IF upto \in DOMAIN pages /\ pages[upto].status = 200
                THEN pages[upto].data ELSE <<>>)

\* C14: without an ordering parameter the rows of the pages received, taken
\* in page order, are in descending order of date_joined, and rows of one
\* date_joined are in ascending order of name.
C14_DefaultOrderDateThenName ==
    LET rows == Concat(listing, NumPages(MaxRecords, PageSize))
    IN  \A k, l \in 1..Len(rows) :
            k < l => \/ rows[k].date_joined > rows[l].date_joined
                     \/ /\ rows[k].date_joined = rows[l].date_joined
                        /\ ~StrLess(rows[l].name, rows[k].name)

\* C14, without the tie-break: the rows of the pages received, taken in
\* page order, are in descending order of date_joined.
C14_DefaultOrderDate ==
    LET rows == Concat(listing, NumPages(MaxRecords, PageSize))
    IN  \A k, l \in 1..Len(rows) : k < l => rows[k].date_joined >= rows[l].date_joined

\* list queries with a department or a role outside its enumeration
UnknownChoiceQueries ==
    {[department |-> "Bogus"], [role |-> "Bogus"], [department |-> "hr"],
     [department |-> "HR", role |-> "Bogus"]}

\* C15: for every table, a list with a department or role value outside its
\* enumeration is answered 200 with count 0 and no results.
C15_UnknownFilterValueGivesEmptyList ==
    \A q \in UnknownChoiceQueries, tie \in TieOrders :
        LET r == ListView(store, TRUE, q, tie)
        IN  r.status = 200 /\ r.count = 0 /\ r.data = <<>>

\* C16: a list with a page number above the number of pages of the table is
\* answered with an empty list of results, not with an error.
C16_PageBeyondLastGivesEmptyList ==
    \A p \in DOMAIN listing :
        p > NumPages(Cardinality(DOMAIN store), PageSize)
        => listing[p].status = 200 /\ listing[p].data = <<>>

====
